---- MODULE Spec2Model ----
(***************************************************************************)
(* State-machine model of src/app.js: a browser page that loads a COCO-SSD *)
(* detector, starts/stops a camera stream from two buttons and runs one    *)
(* detect/filter/draw cycle per animation frame.                           *)
(*                                                                         *)
(* JavaScript runs one task at a time; an async function runs from one     *)
(* await to the next without interruption.  Every action below is one such *)
(* run-to-completion segment: a click handler up to its first await, or    *)
(* the continuation that runs when an awaited promise settles.             *)
(***************************************************************************)
EXTENDS Integers, Sequences, FiniteSets, TLC

\* ------------------------------------------------------------- bounds
\* start clicks that pass the model check (each one calls getUserMedia)
MaxStarts == 2
\* invocations of loop() that get past `if (!running) return`
MaxCycles == 2

NULL == "null"
\* the null of a handle that is otherwise a positive id (stream, rafId)
NoId == 0

\* -------------------------------------------------- program constants
DANGEROUS == {"knife", "scissors", "baseball bat"}

\* canvas.width/height fallback when the video reports no size
DefaultWidth == 1280
DefaultHeight == 720
\* the size of a canvas element whose width/height were never set
InitialCanvasSize == <<300, 150>>

StatusInitial == "(markup)"
StatusModelLoaded == "Model loaded. Click Start Camera."
StatusModelFailed == "Failed to load model."
StatusStillLoading == "Still loading model..."
StatusRunning == "Camera running. Detecting..."
StatusNoCamera == "Could not access camera. Check permissions."
StatusStopped == "Camera stopped."

\* ------------------------------------------------------------- inputs
\* detections the detector may report; score is in thousandths
Knife == [class |-> "knife", score |-> 920, bbox |-> <<10, 10, 50, 60>>]
Person == [class |-> "person", score |-> 810, bbox |-> <<100, 100, 40, 80>>]
PredPool == {Knife, Person}
PredLists == {<<>>, <<Knife, Person>>}

\* video.videoWidth/videoHeight after play(); <<0, 0>> is "unknown"
VideoDims == {<<0, 0>>, <<640, 480>>}

\* milliseconds between two consecutive readings of performance.now()
Deltas == {500}
\* performance.now() just before the first drawBoxes call of the page
FirstNows == {1000}

StartIds == 1..MaxStarts

VARIABLES
  model,            \* null | "coco" (let model)
  loadPc,           \* cocoSsd.load promise: "pending" | "loaded" | "failed"
  stream,           \* NoId | id of the MediaStream held in `stream`
  running,          \* let running
  rafId,            \* NoId | last id returned by requestAnimationFrame
  status,           \* statusEl.textContent
  startBtnDisabled, \* startBtn.disabled
  stopBtnDisabled,  \* stopBtn.disabled
  showAll,          \* showAll.checked
  videoSrc,         \* video.srcObject
  canvas,           \* what is painted on the canvas
  canvasSize,       \* <<canvas.width, canvas.height>>
  prev,             \* drawBoxes.prev (0 while it is unset)
  startPc,          \* position of each start-click handler invocation
  liveTracks,       \* ids of acquired streams whose tracks are not stopped
  detecting,        \* ids of frame cycles awaiting model.detect
  rafPending,       \* ids of animation-frame callbacks not yet fired
  nextCycle,        \* number of frame cycles begun so far
  lastOp,           \* history: the segment that ran last
  stopSeen,         \* history: cycles awaiting detect since before a stop()
  interrupted,      \* history: starts in progress since before a stop()
  sinceStop,        \* history: a stop() ended a session, no start() since
  detected,         \* frame specification: what model.detect resolves with
  filterRun         \* frame specification: the filter applied once and twice

vars == <<model, loadPc, stream, running, rafId, status, startBtnDisabled,
          stopBtnDisabled, showAll, videoSrc, canvas, canvasSize, prev,
          startPc, liveTracks, detecting, rafPending, nextCycle, lastOp,
          stopSeen, interrupted, sinceStop, detected, filterRun>>

\* the variables only the frame specification (FrameSpec) changes
frameVars == <<detected, filterRun>>

histVars == <<stopSeen, interrupted, sinceStop>>

Max(a, b) == IF a >= b THEN a ELSE b

\* ------------------------------------------------------------- canvas
EmptyCanvas == [frame |-> FALSE, rects |-> <<>>, labels |-> <<>>, fps |-> NULL]

\* ctx.clearRect(0, 0, canvas.width, canvas.height)
clearRect(cv) == EmptyCanvas

\* ctx.drawImage(video, 0, 0, canvas.width, canvas.height): the frame covers
\* the whole surface, so whatever was painted before is gone
drawImage(cv) == [frame |-> TRUE, rects |-> <<>>, labels |-> <<>>, fps |-> NULL]

\* n / 10 printed with one decimal, n a non-negative number of tenths
Fixed1(n) == ToString(n \div 10) \o "." \o ToString(n % 10)

\* a variant that clamps the delta at 2 ms
FpsTenths_ClampAtTwo(delta) ==
  LET m == Max(2, delta) IN (20000 + m) \div (2 * m)

\* 1000 / Math.max(1, now - prev), in tenths, rounded as toFixed(1) rounds
FpsTenths(delta) ==
  LET m == Max(1, delta) IN (20000 + m) \div (2 * m)

\* a variant that knows one dangerous class only
IsDanger_KnifeOnly(p) == p.class = "knife"

IsDanger(p) == p.class \in DANGEROUS

\* a variant that strokes every box the neutral way
BoxOf_AlwaysNeutral(p) == [bbox |-> p.bbox, color |-> "#7dd3fc", thick |-> 2]

BoxOf(p) ==
  [bbox |-> p.bbox,
   color |-> IF IsDanger(p) THEN "#f87171" ELSE "#7dd3fc",
   thick |-> IF IsDanger(p) THEN 4 ELSE 2]

\* the label chip above a box: `${p.class} ${(p.score * 100).toFixed(1)}%`
\* on a filled rectangle at (x, max(0, y - boxH)), text at (x + padX,
\* max(12, y - 6))
LabelOf(p) ==
  [text |-> p.class \o " " \o Fixed1(p.score) \o "%",
   chipX |-> p.bbox[1],
   chipY |-> Max(0, p.bbox[2] - 22),
   textX |-> p.bbox[1] + 8,
   textY |-> Max(12, p.bbox[2] - 6)]

\* what drawBoxes(preds) paints; now is performance.now(), before is
\* drawBoxes.prev as the call finds it (`if (!drawBoxes.prev) drawBoxes.prev
\* = now` makes the first call measure 0)
drawBoxes(cv, preds, now, before) ==
  LET delta == now - (IF before = 0 THEN now ELSE before) IN
  [frame |-> cv.frame,
   rects |-> cv.rects \o [i \in 1..Len(preds) |-> BoxOf(preds[i])],
   labels |-> cv.labels \o [i \in 1..Len(preds) |-> LabelOf(preds[i])],
   fps |-> "~" \o Fixed1(FpsTenths(delta)) \o " FPS"]

\* -------------------------------------------------------------- filter
RECURSIVE SelectDanger(_)
SelectDanger(preds) ==
  IF preds = <<>> THEN <<>>
  ELSE (IF IsDanger(Head(preds)) THEN <<Head(preds)>> ELSE <<>>)
       \o SelectDanger(Tail(preds))

\* a variant that filters in both modes
filtered_DangerOnly(checked, predictions) == SelectDanger(predictions)

\* a variant whose dangerous-only mode drops the first prediction
filtered_DropHead(checked, predictions) ==
  IF checked \/ predictions = <<>> THEN predictions ELSE Tail(predictions)

\* showAll.checked ? predictions : predictions.filter(p => DANGEROUS.has(p.class))
filtered(checked, predictions) ==
  IF checked THEN predictions ELSE SelectDanger(predictions)

\* the filter not yet applied
NoFilterRun == [pc |-> "in", mode |-> FALSE, once |-> <<>>, twice |-> <<>>]

\* --------------------------------------------------------------- Init
Init ==
  /\ model = NULL
  /\ loadPc = "pending"
  /\ stream = NoId
  /\ running = FALSE
  /\ rafId = NoId
  /\ status = StatusInitial
  /\ startBtnDisabled = FALSE
  /\ stopBtnDisabled \in BOOLEAN
  /\ showAll = FALSE
  /\ videoSrc = NoId
  /\ canvas = EmptyCanvas
  /\ canvasSize = InitialCanvasSize
  /\ prev = 0
  /\ startPc = [i \in StartIds |-> "idle"]
  /\ liveTracks = {}
  /\ detecting = {}
  /\ rafPending = {}
  /\ nextCycle = 0
  /\ lastOp = "init"
  /\ stopSeen = {}
  /\ interrupted = {}
  /\ sinceStop = FALSE
  /\ detected = <<>>
  /\ filterRun = NoFilterRun

Starting == {i \in StartIds : startPc[i] \in {"gum", "play"}}

\* --------------------------------------------------------- model load
\* cocoSsd.load(...).then(m => ...)
ModelLoadResolve ==
  /\ loadPc = "pending"
  /\ loadPc' = "loaded"
  /\ model' = "coco"
  /\ status' = StatusModelLoaded
  /\ lastOp' = "loadResolve"
  /\ UNCHANGED frameVars
  /\ UNCHANGED <<stream, running, rafId, startBtnDisabled, stopBtnDisabled,
                 showAll, videoSrc, canvas, canvasSize, prev, startPc,
                 liveTracks, detecting, rafPending, nextCycle, histVars>>

\* cocoSsd.load(...).catch(err => ...)
ModelLoadReject ==
  /\ loadPc = "pending"
  /\ loadPc' = "failed"
  /\ status' = StatusModelFailed
  /\ lastOp' = "loadReject"
  /\ UNCHANGED frameVars
  /\ UNCHANGED <<model, stream, running, rafId, startBtnDisabled,
                 stopBtnDisabled, showAll, videoSrc, canvas, canvasSize,
                 prev, startPc, liveTracks, detecting, rafPending,
                 nextCycle, histVars>>

\* ---------------------------------------------------------- the toggle
ToggleShowAll ==
  /\ showAll' = ~showAll
  /\ lastOp' = "toggle"
  /\ UNCHANGED frameVars
  /\ UNCHANGED <<model, loadPc, stream, running, rafId, status,
                 startBtnDisabled, stopBtnDisabled, videoSrc, canvas,
                 canvasSize, prev, startPc, liveTracks, detecting,
                 rafPending, nextCycle, histVars>>

\* ------------------------------------------------------- the frame loop
\* a variant of loop() without `if (!running) return`
loop_NoRunningCheck(isRunning, cv) ==
  /\ nextCycle < MaxCycles
  /\ canvas' = drawImage(cv)
  /\ nextCycle' = nextCycle + 1
  /\ detecting' = detecting \cup {nextCycle + 1}

\* loop() up to its await: `if (!running) return`, drawImage, and the call
\* of model.detect(video).  isRunning is `running` when loop() is entered,
\* cv the canvas at that moment.
loop(isRunning, cv) ==
  IF ~isRunning
  THEN /\ canvas' = cv
       /\ UNCHANGED <<detecting, nextCycle>>
  ELSE /\ nextCycle < MaxCycles
       /\ canvas' = drawImage(cv)
       /\ nextCycle' = nextCycle + 1
       /\ detecting' = detecting \cup {nextCycle + 1}

\* the values performance.now() may return when the previous reading was
\* taken D milliseconds ago
Readings(D) ==
  {(IF prev = 0 THEN t0 ELSE prev) + d : t0 \in FirstNows, d \in D}

\* loop() after its await, for cycle c: filter, drawBoxes and
\* rafId = requestAnimationFrame(loop).  The callback's id is named after
\* the cycle that requested it.
loopResume(c, predictions, now) ==
  /\ canvas' = drawBoxes(canvas, filtered(showAll, predictions), now, prev)
  /\ prev' = now
  /\ rafId' = c
  /\ rafPending' = rafPending \cup {c}
  /\ detecting' = detecting \ {c}

\* model.detect(video) resolves with a list of predictions
DetectResolve(c) ==
  /\ c \in detecting
  /\ \E predictions \in PredLists, now \in Readings(Deltas) :
       loopResume(c, predictions, now)
  /\ lastOp' = "detectResolve"
  /\ UNCHANGED frameVars
  /\ UNCHANGED <<model, loadPc, stream, running, status, startBtnDisabled,
                 stopBtnDisabled, showAll, videoSrc, canvasSize, startPc,
                 liveTracks, nextCycle>>
  /\ stopSeen' = stopSeen \ {c}
  /\ UNCHANGED <<interrupted, sinceStop>>

\* a variant that gives up the cycle when the detector fails
DetectReject_GivesUp(c) ==
  /\ c \in detecting
  /\ detecting' = detecting \ {c}
  /\ lastOp' = "detectReject"
  /\ UNCHANGED frameVars
  /\ UNCHANGED <<model, loadPc, stream, running, rafId, status,
                 startBtnDisabled, stopBtnDisabled, showAll, videoSrc, canvas,
                 canvasSize, prev, startPc, liveTracks, rafPending,
                 nextCycle>>
  /\ stopSeen' = stopSeen \ {c}
  /\ UNCHANGED <<interrupted, sinceStop>>

\* model.detect(video) rejects: catch logs, predictions stays []
DetectReject(c) ==
  /\ c \in detecting
  /\ \E now \in Readings(Deltas) : loopResume(c, <<>>, now)
  /\ lastOp' = "detectReject"
  /\ UNCHANGED frameVars
  /\ UNCHANGED <<model, loadPc, stream, running, status, startBtnDisabled,
                 stopBtnDisabled, showAll, videoSrc, canvasSize, startPc,
                 liveTracks, nextCycle>>
  /\ stopSeen' = stopSeen \ {c}
  /\ UNCHANGED <<interrupted, sinceStop>>

\* the browser runs the animation-frame callback r: loop()
RafFire(r) ==
  /\ r \in rafPending
  /\ rafPending' = rafPending \ {r}
  /\ loop(running, canvas)
  /\ lastOp' = "rafFire"
  /\ UNCHANGED frameVars
  /\ UNCHANGED <<model, loadPc, stream, running, rafId, status,
                 startBtnDisabled, stopBtnDisabled, showAll, videoSrc,
                 canvasSize, prev, startPc, liveTracks, histVars>>

\* --------------------------------------------------------------- start
\* a variant of the start handler without the model check
StartHandler_NoModelCheck ==
  /\ \E i \in StartIds :
       /\ startPc[i] = "idle"
       /\ \A j \in StartIds : j < i => startPc[j] # "idle"
       /\ startPc' = [startPc EXCEPT ![i] = "gum"]
  /\ UNCHANGED status

\* the start-click handler up to `await getUserMedia(...)`
StartHandler ==
  IF model = NULL
  THEN /\ status' = StatusStillLoading
       /\ UNCHANGED startPc
  ELSE /\ \E i \in StartIds :
            /\ startPc[i] = "idle"
            /\ \A j \in StartIds : j < i => startPc[j] # "idle"
            /\ startPc' = [startPc EXCEPT ![i] = "gum"]
       /\ UNCHANGED status

\* a click on startBtn is delivered (a disabled button gets no click)
StartClick ==
  /\ ~startBtnDisabled
  /\ StartHandler
  /\ lastOp' = "start"
  /\ UNCHANGED frameVars
  /\ sinceStop' = FALSE
  /\ UNCHANGED <<model, loadPc, stream, running, rafId, startBtnDisabled,
                 stopBtnDisabled, showAll, videoSrc, canvas, canvasSize,
                 prev, liveTracks, detecting, rafPending, nextCycle,
                 stopSeen, interrupted>>

\* a variant that sets running as soon as the stream is bound
GumResolve_RunsEarly(i) ==
  /\ startPc[i] = "gum"
  /\ stream' = i
  /\ liveTracks' = liveTracks \cup {i}
  /\ videoSrc' = i
  /\ running' = TRUE
  /\ startPc' = [startPc EXCEPT ![i] = "play"]
  /\ lastOp' = "gumResolve"
  /\ UNCHANGED frameVars
  /\ UNCHANGED <<model, loadPc, rafId, status, startBtnDisabled,
                 stopBtnDisabled, showAll, canvas, canvasSize, prev,
                 detecting, rafPending, nextCycle, histVars>>

\* getUserMedia resolves with a new stream: stream = ..., video.srcObject =
\* stream, and video.play() is called
GumResolve(i) ==
  /\ startPc[i] = "gum"
  /\ stream' = i
  /\ liveTracks' = liveTracks \cup {i}
  /\ videoSrc' = i
  /\ startPc' = [startPc EXCEPT ![i] = "play"]
  /\ lastOp' = "gumResolve"
  /\ UNCHANGED frameVars
  /\ UNCHANGED <<model, loadPc, running, rafId, status, startBtnDisabled,
                 stopBtnDisabled, showAll, canvas, canvasSize, prev,
                 detecting, rafPending, nextCycle, histVars>>

\* getUserMedia rejects: the catch block
GumReject(i) ==
  /\ startPc[i] = "gum"
  /\ status' = StatusNoCamera
  /\ startPc' = [startPc EXCEPT ![i] = "failed"]
  /\ lastOp' = "gumReject"
  /\ UNCHANGED frameVars
  /\ UNCHANGED <<model, loadPc, stream, running, rafId, startBtnDisabled,
                 stopBtnDisabled, showAll, videoSrc, canvas, canvasSize,
                 prev, liveTracks, detecting, rafPending, nextCycle>>
  /\ interrupted' = interrupted \ {i}
  /\ UNCHANGED <<stopSeen, sinceStop>>

\* video.play() resolves: size the canvas (which also blanks it), set
\* running, swap the buttons, set the status and call loop()
PlayResolve(i) ==
  /\ startPc[i] = "play"
  /\ \E dims \in VideoDims :
       canvasSize' = <<IF dims[1] = 0 THEN DefaultWidth ELSE dims[1],
                       IF dims[2] = 0 THEN DefaultHeight ELSE dims[2]>>
  /\ running' = TRUE
  /\ startBtnDisabled' = TRUE
  /\ stopBtnDisabled' = FALSE
  /\ status' = StatusRunning
  /\ loop(TRUE, EmptyCanvas)
  /\ startPc' = [startPc EXCEPT ![i] = "done"]
  /\ lastOp' = "playResolve"
  /\ UNCHANGED frameVars
  /\ UNCHANGED <<model, loadPc, stream, rafId, showAll, videoSrc, prev,
                 liveTracks, rafPending>>
  /\ interrupted' = interrupted \ {i}
  /\ UNCHANGED <<stopSeen, sinceStop>>

\* video.play() rejects: the catch block
PlayReject(i) ==
  /\ startPc[i] = "play"
  /\ status' = StatusNoCamera
  /\ startPc' = [startPc EXCEPT ![i] = "failed"]
  /\ lastOp' = "playReject"
  /\ UNCHANGED frameVars
  /\ UNCHANGED <<model, loadPc, stream, running, rafId, startBtnDisabled,
                 stopBtnDisabled, showAll, videoSrc, canvas, canvasSize,
                 prev, liveTracks, detecting, rafPending, nextCycle>>
  /\ interrupted' = interrupted \ {i}
  /\ UNCHANGED <<stopSeen, sinceStop>>

\* ---------------------------------------------------------------- stop
\* the stop-click handler
StopHandler ==
  /\ running' = FALSE
  /\ rafPending' = IF rafId # NoId THEN rafPending \ {rafId} ELSE rafPending
  /\ liveTracks' = IF stream # NoId THEN liveTracks \ {stream} ELSE liveTracks
  /\ stream' = NoId
  /\ canvas' = clearRect(canvas)
  /\ startBtnDisabled' = FALSE
  /\ stopBtnDisabled' = TRUE
  /\ status' = StatusStopped

\* a click on stopBtn is delivered (a disabled button gets no click)
StopClick ==
  /\ ~stopBtnDisabled
  /\ StopHandler
  /\ lastOp' = "stop"
  /\ UNCHANGED frameVars
  /\ stopSeen' = stopSeen \cup detecting
  /\ interrupted' = interrupted \cup Starting
  /\ sinceStop' = IF running /\ Starting = {} THEN TRUE ELSE sinceStop
  /\ UNCHANGED <<model, loadPc, rafId, showAll, videoSrc, canvasSize, prev,
                 startPc, detecting, nextCycle>>

\* ----------------------------------------------------------------- Next
Next ==
  \/ ModelLoadResolve
  \/ ModelLoadReject
  \/ ToggleShowAll
  \/ StartClick
  \/ StopClick
  \/ \E i \in StartIds : GumResolve(i)
  \/ \E i \in StartIds : GumReject(i)
  \/ \E i \in StartIds : PlayResolve(i)
  \/ \E i \in StartIds : PlayReject(i)
  \/ \E c \in 1..MaxCycles : DetectResolve(c)
  \/ \E c \in 1..MaxCycles : DetectReject(c)
  \/ \E r \in 1..MaxCycles : RafFire(r)

Spec == Init /\ [][Next]_vars

\* Spec with the settling the browser and the detector provide: a pending
\* model.detect call resolves or rejects, a requested animation-frame callback
\* that was not cancelled runs
FairSpec ==
  /\ Spec
  /\ \A c \in 1..MaxCycles : WF_vars(DetectResolve(c) \/ DetectReject(c))
  /\ \A r \in 1..MaxCycles : WF_vars(RafFire(r))

\* ------------------------------------------------ frame specification
\* One started session seen from its first frame cycle on, with the detector
\* answering from a wider set of prediction lists and the clock advancing by
\* more kinds of steps than in Spec, and with the filter applied on its own.

\* longest prediction list the detector returns in the frame specification
MaxPredLen == 2

Scissors == [class |-> "scissors", score |-> 555, bbox |-> <<0, 5, 30, 30>>]
Bat == [class |-> "baseball bat", score |-> 700, bbox |-> <<20, 40, 10, 90>>]
FramePool == {Knife, Person, Scissors, Bat}
FrameInputs == UNION {[1..n -> FramePool] : n \in 0..MaxPredLen}
FrameDeltas == {0, 1, 3, 500}

\* the session as the first PlayResolve leaves it (load, start, getUserMedia
\* and play() all succeeded, nothing else happened)
FirstCycleBegun ==
  /\ model = "coco"
  /\ loadPc = "loaded"
  /\ stream = 1
  /\ running = TRUE
  /\ rafId = NoId
  /\ status = StatusRunning
  /\ startBtnDisabled = TRUE
  /\ stopBtnDisabled = FALSE
  /\ videoSrc = 1
  /\ canvas = drawImage(EmptyCanvas)
  /\ canvasSize = <<DefaultWidth, DefaultHeight>>
  /\ prev = 0
  /\ startPc = [i \in StartIds |-> IF i = 1 THEN "done" ELSE "idle"]
  /\ liveTracks = {1}
  /\ detecting = {1}
  /\ rafPending = {}
  /\ nextCycle = 1
  /\ lastOp = "playResolve"
  /\ stopSeen = {}
  /\ interrupted = {}
  /\ sinceStop = FALSE

FrameInit ==
  /\ FirstCycleBegun
  /\ showAll \in BOOLEAN
  /\ detected \in FrameInputs
  /\ filterRun = NoFilterRun

\* model.detect(video) resolves with `detected`
FrameDetect(c) ==
  /\ c \in detecting
  /\ \E now \in Readings(FrameDeltas) : loopResume(c, detected, now)
  /\ lastOp' = "detectResolve"
  /\ UNCHANGED frameVars
  /\ UNCHANGED <<model, loadPc, stream, running, status, startBtnDisabled,
                 stopBtnDisabled, showAll, videoSrc, canvasSize, startPc,
                 liveTracks, nextCycle>>
  /\ stopSeen' = stopSeen \ {c}
  /\ UNCHANGED <<interrupted, sinceStop>>

\* the filter of loop() applied to `detected` in the current mode
ApplyFilter ==
  /\ filterRun.pc = "in"
  /\ filterRun' = [pc |-> "once", mode |-> showAll,
                   once |-> filtered(showAll, detected), twice |-> <<>>]
  /\ lastOp' = "filter"
  /\ UNCHANGED <<model, loadPc, stream, running, rafId, status,
                 startBtnDisabled, stopBtnDisabled, showAll, videoSrc, canvas,
                 canvasSize, prev, startPc, liveTracks, detecting, rafPending,
                 nextCycle, histVars, detected>>

\* the filter applied to its own result, in the same mode
ApplyFilterAgain ==
  /\ filterRun.pc = "once"
  /\ filterRun' = [filterRun EXCEPT
                     !.pc = "twice",
                     !.twice = filtered(filterRun.mode, filterRun.once)]
  /\ lastOp' = "filterAgain"
  /\ UNCHANGED <<model, loadPc, stream, running, rafId, status,
                 startBtnDisabled, stopBtnDisabled, showAll, videoSrc, canvas,
                 canvasSize, prev, startPc, liveTracks, detecting, rafPending,
                 nextCycle, histVars, detected>>

FrameNext ==
  \/ \E c \in 1..MaxCycles : FrameDetect(c)
  \/ \E r \in 1..MaxCycles : RafFire(r)
  \/ ToggleShowAll
  \/ ApplyFilter
  \/ ApplyFilterAgain

FrameSpec == FrameInit /\ [][FrameNext]_vars

\* -------------------------------------------------------------- claims
\* frame cycles in flight (awaiting the detector) or scheduled
FramePending == Cardinality(detecting) + Cardinality(rafPending)

\* C1: a frame cycle whose detector call was pending when stop() ran does
\* not request another animation frame when that call settles.
C1_NoRescheduleAfterStop ==
  [][\A c \in stopSeen :
       (c \in detecting /\ c \notin detecting') => c \notin rafPending']_vars

\* C2: from a stop() that ends a started session until the next start(), the
\* stream handle is none, the stream bound to the video has no live track and
\* the render surface is empty.
C2_StopReleasesAndClears ==
  sinceStop =>
    /\ stream = NoId
    /\ videoSrc \notin liveTracks
    /\ canvas = EmptyCanvas

\* C3: outside of a start in progress, running implies a stream is held and
\* exactly one frame cycle is in flight or scheduled; not running implies no
\* stream is held and no frame cycle is in flight or scheduled.
C3_SessionInvariant ==
  Starting = {} =>
    /\ running => (stream # NoId /\ FramePending = 1)
    /\ ~running => (stream = NoId /\ FramePending = 0)

\* C4: at most one frame cycle is in flight or scheduled at any time.
C4_NoOverlap == FramePending <= 1

\* C5: at most one acquired stream has live tracks, and a stream with live
\* tracks is the one the session's stream handle refers to.
C5_ExclusiveCamera ==
  /\ Cardinality(liveTracks) <= 1
  /\ liveTracks \subseteq {stream}

\* C6: a start that was in progress when stop() ran does not make the
\* session Running when it completes.
C6_StopDuringStartingStaysIdle ==
  [][\A i \in interrupted :
       (startPc[i] = "play" /\ startPc'[i] = "done") => ~running']_vars

\* C7: when the only start in progress of an idle session fails (camera
\* request or playback), the session is Idle afterwards: not running, no
\* stream held, no frame cycle pending, the camera-unavailable status shown
\* and the start button usable.
C7_StartFailureRevertsToIdle ==
  [][(lastOp' \in {"gumReject", "playReject"} /\ ~running
        /\ Cardinality(Starting) = 1)
       => /\ ~running'
          /\ stream' = NoId
          /\ rafPending' = {}
          /\ status' = StatusNoCamera
          /\ ~startBtnDisabled']_vars

\* C8: a start() while the model is not loaded sets the not-ready status and
\* changes nothing else: no camera request, not running, no stream, no frame.
C8_StartBeforeModelLoaded ==
  [][(lastOp' = "start" /\ model = NULL)
       => /\ status' = StatusStillLoading
          /\ UNCHANGED <<model, loadPc, stream, running, rafId, startPc,
                         liveTracks, detecting, rafPending, nextCycle,
                         videoSrc, canvas, canvasSize, startBtnDisabled,
                         stopBtnDisabled>>]_vars

C8_Witness ==
  /\ lastOp = "start"
  /\ model = NULL
  /\ status = StatusStillLoading
  /\ Starting = {}

\* C9: when the detector call of a cycle rejects, the cycle draws no box,
\* leaves running, the stream and the starts as they are and requests the
\* next animation frame; a callback that fires while running begins a cycle
\* with a new detector call; and a running session always has a frame cycle
\* in flight or scheduled.
C9_DetectorFailureSkipsOneFrame ==
  /\ [][lastOp' = "detectReject"
          => /\ canvas'.rects = canvas.rects
             /\ canvas'.labels = canvas.labels
             /\ UNCHANGED <<running, stream, startPc, liveTracks, model>>
             /\ \E c \in detecting :
                  /\ detecting' = detecting \ {c}
                  /\ rafPending' = rafPending \cup {c}
                  /\ rafId' = c]_vars
  /\ [][(lastOp' = "rafFire" /\ running)
          => \E c \in detecting' : c \notin detecting]_vars
  /\ [](running => FramePending >= 1)

C9_Witness ==
  /\ lastOp = "detectReject"
  /\ running
  /\ rafId \in rafPending
  /\ canvas.rects = <<>>
  /\ canvas.frame

\* C10: once the model load has failed, the status stays the load-failure
\* message, the model stays unloaded and the session is never running.
C10_LoadFailurePersists ==
  loadPc = "failed" =>
    /\ status = StatusModelFailed
    /\ model = NULL
    /\ ~running

\* the session is Idle: not running and no start in progress
Idle == ~running /\ Starting = {}

\* C11: a stop() in Idle leaves running, the stream handle and the
\* frame-schedule handle as they are, and leaves a state that a further
\* stop() would not change.
C11_StopInIdleIsNoOp ==
  [][(lastOp' = "stop" /\ Idle)
       => /\ running' = running
          /\ stream' = stream
          /\ rafId' = rafId
          /\ ~running' /\ stream' = NoId /\ rafId' \notin rafPending'
          /\ canvas' = EmptyCanvas /\ status' = StatusStopped
          /\ ~startBtnDisabled' /\ stopBtnDisabled']_vars

\* ------------------------------------------------- claims on FrameSpec
\* the positions of P whose class is one of the three dangerous classes
DangerAt(P) ==
  {i \in 1..Len(P) : P[i].class \in {"knife", "scissors", "baseball bat"}}

\* the subsequence of P at the positions S, in P's order
SubSeqAt(P, S) ==
  [k \in 1..Cardinality(S) |->
     P[CHOOSE i \in S : Cardinality({j \in S : j < i}) = k - 1]]

\* C12: with "show all" checked the filter returns the prediction list it was
\* given: same elements, same order, same multiplicity.
C12_ShowAllIsIdentity ==
  (filterRun.pc # "in" /\ filterRun.mode) => filterRun.once = detected

C12_Witness ==
  /\ filterRun.pc = "once"
  /\ filterRun.mode
  /\ Len(detected) >= 2
  /\ detected[1] # detected[2]
  /\ DangerAt(detected) # 1..Len(detected)

\* C13: with "show all" unchecked the filter returns exactly the subsequence
\* of the prediction list whose class is knife, scissors or baseball bat, in
\* the list's order, and leaves the list itself as it was.
C13_DangerousOnlyIsSubsequence ==
  [][(filterRun.pc = "in" /\ filterRun'.pc = "once" /\ ~filterRun'.mode)
       => /\ filterRun'.once = SubSeqAt(detected, DangerAt(detected))
          /\ detected' = detected]_vars

C13_Witness ==
  /\ filterRun.pc = "once"
  /\ ~filterRun.mode
  /\ Len(detected) >= 2
  /\ detected[1].class = "person"
  /\ detected[2].class = "scissors"
  /\ filterRun.once = <<Scissors>>

\* C14: filtering a filtered list again in the same mode changes nothing.
C14_FilterIdempotent ==
  filterRun.pc = "twice" => filterRun.twice = filterRun.once

C14_Witness ==
  /\ filterRun.pc = "twice"
  /\ ~filterRun.mode
  /\ filterRun.once # detected
  /\ Len(filterRun.once) >= 1

C14_WitnessShowAll ==
  /\ filterRun.pc = "twice"
  /\ filterRun.mode
  /\ Len(filterRun.once) >= 2

\* what the filter hands to drawBoxes, said without the filter's definition
Shown == IF showAll THEN detected ELSE SubSeqAt(detected, DangerAt(detected))

\* the rectangles a step strokes
Stroked == SubSeq(canvas'.rects, Len(canvas.rects) + 1, Len(canvas'.rects))

\* C15: when a cycle's detector call resolves, one rectangle is stroked per
\* filtered prediction, at that prediction's bounding box, thick (4) and red
\* (#f87171) if and only if its class is dangerous and thin (2) and blue
\* (#7dd3fc) otherwise; dangerous-only mode with [knife, person] strokes
\* exactly one box, a red one.
C15_OneBoxPerFilteredPrediction ==
  [][lastOp' = "detectResolve"
       => /\ Len(canvas'.rects) = Len(canvas.rects) + Len(Shown)
          /\ \A k \in 1..Len(Shown) :
               /\ Stroked[k].bbox = Shown[k].bbox
               /\ IF k \in {j \in 1..Len(Shown) : Shown[j].class \in
                              {"knife", "scissors", "baseball bat"}}
                  THEN Stroked[k].color = "#f87171" /\ Stroked[k].thick = 4
                  ELSE Stroked[k].color = "#7dd3fc" /\ Stroked[k].thick = 2
          /\ (~showAll /\ detected = <<Knife, Person>>)
               => /\ Len(canvas'.rects) = 1
                  /\ canvas'.rects[1].bbox = Knife.bbox
                  /\ canvas'.rects[1].color = "#f87171"]_vars

C15_Witness ==
  /\ lastOp = "detectResolve"
  /\ ~showAll
  /\ detected = <<Knife, Person>>
  /\ Len(canvas.rects) = 1

C15_WitnessShowAll ==
  /\ lastOp = "detectResolve"
  /\ showAll
  /\ detected = <<Knife, Person>>
  /\ Len(canvas.rects) = 2
  /\ canvas.rects[2].thick = 2

\* 1000 / m to one decimal, in tenths: the t nearest to 10000 / m, the larger
\* one on a tie; it is the integer part of 10000 / m or the next integer
NearestTenths(m) ==
  CHOOSE t \in {10000 \div m, 10000 \div m + 1} :
    2 * t * m - m <= 20000 /\ 20000 < 2 * t * m + m

\* C16: a drawBoxes call that has a predecessor shows 1000 / max(1, delta),
\* delta being the milliseconds since that predecessor, to one decimal and
\* without smoothing: 500 ms apart shows 2.0, and a delta below 1 ms shows
\* 1000.0, the largest value ever shown.
C16_FpsIsRawReciprocal ==
  [][(lastOp' = "detectResolve" /\ prev # 0)
       => LET delta == prev' - prev
              m == IF delta < 1 THEN 1 ELSE delta
          IN /\ canvas'.fps = "~" \o Fixed1(NearestTenths(m)) \o " FPS"
             /\ delta = 500 => canvas'.fps = "~2.0 FPS"
             /\ delta < 1 => canvas'.fps = "~1000.0 FPS"
             /\ NearestTenths(m) <= 10000]_vars

C16_Witness ==
  /\ lastOp = "detectResolve"
  /\ nextCycle >= 2
  /\ canvas.fps = "~2.0 FPS"

C16_WitnessClamped ==
  /\ lastOp = "detectResolve"
  /\ nextCycle >= 2
  /\ rafId >= 2
  /\ prev = 1000
  /\ canvas.fps = "~1000.0 FPS"

C16_WitnessThird ==
  /\ lastOp = "detectResolve"
  /\ canvas.fps = "~333.3 FPS"

\* ----------------------------------------------- claims on Spec, cont.
\* the steps one start() invocation takes
StartSteps ==
  {<<"idle", "gum">>, <<"gum", "play">>, <<"gum", "failed">>,
   <<"play", "done">>, <<"play", "failed">>}

\* C17: a start() first acquires the stream and binds it to the video, then
\* has playback begun, then sizes the canvas, and only then sets running and
\* begins the first frame cycle; running never becomes true and no frame
\* cycle begins before a stream was bound and playback had started.
C17_StartOrder ==
  [][/\ \A i \in StartIds :
          startPc'[i] # startPc[i]
            => /\ <<startPc[i], startPc'[i]>> \in StartSteps
               /\ startPc'[i] = "play"
                    => /\ stream' = i /\ videoSrc' = i /\ i \in liveTracks'
                       /\ running' = running
                       /\ nextCycle' = nextCycle
                       /\ canvasSize' = canvasSize
               /\ startPc'[i] = "done"
                    => /\ videoSrc # NoId
                       /\ canvasSize' \in {<<DefaultWidth, DefaultHeight>>,
                                           <<640, 480>>}
                       /\ running' /\ nextCycle' = nextCycle + 1
     /\ (running' /\ ~running)
          => \E i \in StartIds : startPc[i] = "play" /\ startPc'[i] = "done"
     /\ nextCycle' > nextCycle
          => /\ videoSrc # NoId
             /\ \E i \in StartIds : startPc'[i] = "done"]_vars

C17_Witness ==
  /\ lastOp = "playResolve"
  /\ running
  /\ nextCycle = 1
  /\ videoSrc # NoId
  /\ stream = videoSrc
  /\ canvasSize = <<640, 480>>

\* C18: a frame cycle calls model.detect only while running is true and the
\* model is loaded.
C18_DetectOnlyWhenRunningAndLoaded ==
  [][(nextCycle' > nextCycle \/ detecting' \ detecting # {})
       => running' /\ model' # NULL /\ model # NULL]_vars

C18_Witness ==
  /\ lastOp = "rafFire"
  /\ running
  /\ detecting # {}
  /\ model # NULL

\* no frame cycle in flight or scheduled
AtRest == detecting = {} /\ rafPending = {}

\* C19: in a behaviour where a stop() is followed by no start(), and pending
\* detector calls settle and scheduled callbacks fire, the loop comes to rest
\* for good: from some state on no frame cycle is in flight or scheduled (so
\* model.detect is not called again).
C19_QuiescesAfterStop ==
  []((lastOp = "stop" /\ [](lastOp # "start")) => <>[]AtRest)

====
